---- MODULE Spec2Model ----
(***************************************************************************)
(* Model of the maze generator of mazegen (maze.py, maze_42.py,            *)
(* maze_generator.py, config_parser.py, errors.py) and of render_maze.py:  *)
(* the Maze grid and its wall primitives, the embedding of the "42"        *)
(* pattern, the depth-first carving, the braiding pass, the breadth-first  *)
(* solver, the validation of a Config and the expansion of a Maze into a   *)
(* grid of RCells.                                                         *)
(*                                                                         *)
(* Spec follows one create_maze, SpecRepeat several of them in one         *)
(* process, and SpecCalls single calls of the methods on chosen objects.   *)
(* SpecLive is Spec with its loops bound to go on, SpecSolve follows       *)
(* solve_maze alone on grids with any walls, and SpecRender follows        *)
(* create_maze and the rendering of the maze it returns.                   *)
(*                                                                         *)
(* Coordinates are pairs <<x, y>>.  A Cell is a record of its four wall    *)
(* flags and its type.  A Maze is a record of width, height, grid and      *)
(* path; the grid maps every coordinate to its Cell.                       *)
(*                                                                         *)
(* Python's `random` module is the only source of variation.  Its state    *)
(* is the variable rng.  For the small grids the generator is left         *)
(* unconstrained (rng = FREE): every draw may return every value, which    *)
(* covers the stream of every seed.  For the grids that are too large to   *)
(* follow every stream (those that hold the "42" pattern) the stream is    *)
(* that of a 16-bit linear congruential generator started at the seed.     *)
(***************************************************************************)
EXTENDS Integers, Sequences, FiniteSets, TLC

VARIABLES config, rng, maze, visited, pc, stack, scan, pending, history,
          coordinate, path, error, calls, first, fresh, call, ret

vars == <<config, rng, maze, visited, pc, stack, scan, pending, history,
          coordinate, path, error, calls, first, fresh, call, ret>>

\* the absent value: an absent seed, coordinate or error message
None == <<>>

(***************************************************************************)
(* Bounds of the model.                                                    *)
(***************************************************************************)
\* seeds 0..MaxSeed are tried, next to the absent seed, on the large grids
MaxSeed == 2
\* create_maze is called at most MaxCalls times in one process
MaxCalls == 2
\* draw_42 is called on the grids of 2 .. MaxSide columns and rows
MaxSide == 10
\* the closed grids of 2 .. MaxRender columns and rows are rendered
MaxRender == 4
\* a Config is constructed with a width and a height of -1 or 1 .. MaxDim and
\* with entry and exit coordinates of -1 .. MaxDim - 1
MaxDim == 3

(***************************************************************************)
(* maze.py                                                                 *)
(***************************************************************************)
OPEN == "OPEN"
BLOCKED == "BLOCKED"
PATH == "PATH"
ENTRY == "ENTRY"
EXIT == "EXIT"

CellType == {OPEN, BLOCKED, PATH, ENTRY, EXIT}

\* a freshly constructed Cell: all walls present, type OPEN
Cell == [west |-> TRUE, south |-> TRUE, east |-> TRUE, north |-> TRUE,
         type |-> OPEN]

Coords(width, height) == (0 .. width - 1) \X (0 .. height - 1)

\* Maze.__init__
Maze(width, height) ==
    [width |-> width, height |-> height,
     grid |-> [c \in Coords(width, height) |-> Cell],
     path |-> <<>>]

\* Maze.get_all_coordinates: y-major, x-minor
get_all_coordinates(m) ==
    [i \in 1 .. (m.width * m.height) |->
        <<(i - 1) % m.width, (i - 1) \div m.width>>]

\* Maze.get_cell: grid[y][x]
get_cell(m, x, y) == m.grid[<<x, y>>]

\* the mutation of get_blocked_cells that selects on the wrong type
get_path_cells(m) ==
    SelectSeq(get_all_coordinates(m),
              LAMBDA c : get_cell(m, c[1], c[2]).type = PATH)

\* Maze.get_blocked_cells
get_blocked_cells(m) ==
    SelectSeq(get_all_coordinates(m),
              LAMBDA c : get_cell(m, c[1], c[2]).type = BLOCKED)

AssertionError == "AssertionError"

\* Maze.has_wall_between: the flag of the FIRST cell on the side that faces
\* the second one, or the failed assert of the last line
has_wall_between_result(m, previous_coordinate, current_coordinate) ==
    LET previous_x == previous_coordinate[1]
        previous_y == previous_coordinate[2]
        x == current_coordinate[1]
        y == current_coordinate[2]
        return(flag) == [raised |-> FALSE, value |-> flag]
    IN  IF x > previous_x
        THEN return(get_cell(m, previous_x, previous_y).east)
        ELSE IF x < previous_x
        THEN return(get_cell(m, previous_x, previous_y).west)
        ELSE IF y > previous_y
        THEN return(get_cell(m, previous_x, previous_y).south)
        ELSE IF y < previous_y
        THEN return(get_cell(m, previous_x, previous_y).north)
        ELSE [raised |-> TRUE, value |-> FALSE]

\* Maze.has_wall_between as an expression: its value, or AssertionError
has_wall_between(m, previous_coordinate, current_coordinate) ==
    LET result == has_wall_between_result(m, previous_coordinate,
                                          current_coordinate)
    IN  IF result.raised THEN AssertionError ELSE result.value

\* Cell.set for one wall flag of the cell at c
SetFlag(grid, c, side, value) ==
    [grid EXCEPT ![c] = [@ EXCEPT ![side] = value]]

\* the mutation of Maze.set_wall_at that forgets the second cell
set_wall_at_one_side(m, previous_coordinate, current_coordinate, set_wall) ==
    IF previous_coordinate = current_coordinate THEN m
    ELSE
    LET p == previous_coordinate
        c == current_coordinate
    IN  [m EXCEPT !.grid =
            IF c[2] < p[2] THEN SetFlag(@, p, "north", set_wall)
            ELSE IF c[2] > p[2] THEN SetFlag(@, p, "south", set_wall)
            ELSE IF c[1] > p[1] THEN SetFlag(@, p, "east", set_wall)
            ELSE IF c[1] < p[1] THEN SetFlag(@, p, "west", set_wall)
            ELSE @]

\* the mutation of Maze.set_wall_at that sets the same side of both cells
set_wall_at_same_side(m, previous_coordinate, current_coordinate, set_wall) ==
    IF previous_coordinate = current_coordinate THEN m
    ELSE
    LET p == previous_coordinate
        c == current_coordinate
    IN  [m EXCEPT !.grid =
            IF c[2] < p[2]
            THEN SetFlag(SetFlag(@, c, "north", set_wall), p, "north", set_wall)
            ELSE IF c[2] > p[2]
            THEN SetFlag(SetFlag(@, c, "south", set_wall), p, "south", set_wall)
            ELSE IF c[1] > p[1]
            THEN SetFlag(SetFlag(@, c, "east", set_wall), p, "east", set_wall)
            ELSE IF c[1] < p[1]
            THEN SetFlag(SetFlag(@, c, "west", set_wall), p, "west", set_wall)
            ELSE @]

\* Maze.set_wall_at: both cells are updated; nothing happens for a == b
set_wall_at(m, previous_coordinate, current_coordinate, set_wall) ==
    IF previous_coordinate = current_coordinate THEN m
    ELSE
    LET p == previous_coordinate
        c == current_coordinate
    IN  [m EXCEPT !.grid =
            IF c[2] < p[2]
            THEN SetFlag(SetFlag(@, c, "south", set_wall), p, "north", set_wall)
            ELSE IF c[2] > p[2]
            THEN SetFlag(SetFlag(@, c, "north", set_wall), p, "south", set_wall)
            ELSE IF c[1] > p[1]
            THEN SetFlag(SetFlag(@, c, "west", set_wall), p, "east", set_wall)
            ELSE IF c[1] < p[1]
            THEN SetFlag(SetFlag(@, c, "east", set_wall), p, "west", set_wall)
            ELSE @]

\* list[i] of Python on a list of n items: <<the position>>, counted from
\* the end for a negative i, or None where Python raises IndexError
subscript(i, n) ==
    IF 0 <= i /\ i < n THEN <<i>>
    ELSE IF -n <= i /\ i < 0 THEN <<i + n>>
    ELSE None

\* the two loops of Maze.copy_from from the k-th source cell on, x outer and
\* y inner: the destination cell is self.grid[paste_y][paste_x]; the loops
\* end at the first IndexError and keep what they have written
RECURSIVE paste(_, _, _, _, _)
paste(m, source, offset_x, offset_y, k) ==
    IF k = source.width * source.height THEN [maze |-> m, raised |-> FALSE]
    ELSE LET x == k \div source.height
             y == k % source.height
             paste_x == offset_x + x
             paste_y == offset_y + y
             row == subscript(paste_y, m.height)
             col == subscript(paste_x, m.width)
         IN  IF row = None \/ col = None
             THEN [maze |-> m, raised |-> TRUE]
             ELSE paste([m EXCEPT !.grid[<<col[1], row[1]>>] =
                            get_cell(source, x, y)],
                        source, offset_x, offset_y, k + 1)

\* Maze.copy_from: the maze it leaves, and whether it raised IndexError
copy_from(m, source, offset_x, offset_y) ==
    paste(m, source, offset_x, offset_y, 0)

\* Maze.set_path
set_path(m, p) == [m EXCEPT !.path = p]

\* Cell.set(type=...) on the cell at c
set_type(m, c, t) == [m EXCEPT !.grid[c].type = t]

(***************************************************************************)
(* maze_42.py                                                              *)
(***************************************************************************)
Blocked42 ==
    { <<0, 0>>, <<0, 1>>, <<0, 2>>, <<1, 2>>, <<2, 0>>, <<2, 1>>, <<2, 2>>,
      <<2, 3>>, <<2, 4>>,
      <<4, 0>>, <<5, 0>>, <<6, 0>>, <<6, 1>>, <<6, 2>>, <<5, 2>>, <<4, 2>>,
      <<4, 3>>, <<4, 4>>, <<5, 4>>, <<6, 4>> }

maze_42 ==
    [Maze(7, 5) EXCEPT !.grid =
        [c \in DOMAIN @ |->
            IF c \in Blocked42 THEN [@[c] EXCEPT !.type = BLOCKED] ELSE @[c]]]

(***************************************************************************)
(* render_maze.py                                                          *)
(***************************************************************************)
VERTICAL == "VERTICAL"
HORIZONTAL == "HORIZONTAL"
CENTER == "CENTER"
CORNER == "CORNER"

HOR == "HOR"
VER == "VER"
TL == "TL"
TR == "TR"
BL == "BL"
BR == "BR"
T_UP == "T_UP"
T_DOWN == "T_DOWN"
T_LEFT == "T_LEFT"
T_RIGHT == "T_RIGHT"
CROSS == "CROSS"
NONE == "NONE"

\* the properties blocked, path, entry and exit of a Cell
cell_blocked(cell) == cell.type = BLOCKED
cell_path(cell) == cell.type = PATH
cell_entry(cell) == cell.type = ENTRY
cell_exit(cell) == cell.type = EXIT

\* a freshly constructed RCell
RCell ==
    [blocked |-> FALSE, path |-> FALSE, entry |-> FALSE, exit |-> FALSE,
     open |-> FALSE, type |-> CENTER, corner_type |-> NONE]

\* RenderMaze.__init__: grid[row][col]
RenderMaze(m) ==
    [width |-> m.width * 2 + 1, height |-> m.height * 2 + 1,
     grid |-> [row \in 0 .. m.height * 2 |->
                  [col \in 0 .. m.width * 2 |-> RCell]]]

\* RenderMazeGenerator.get_top_cell: <<the cell>>, or None
get_top_cell(row, col, m) ==
    IF row > 0 THEN <<m.grid[<<col, row - 1>>]>> ELSE None

\* RenderMazeGenerator.get_prev_cell: <<the cell>>, or None
get_prev_cell(row, col, m) ==
    IF col > 0 THEN <<m.grid[<<col - 1, row>>]>> ELSE None

\* the mutation of set_corner that takes every corner for one of the first
\* row
set_corner_first_row(col, top, prev) ==
    LET rcell == [RCell EXCEPT !.type = CORNER]
        set(t) == [rcell EXCEPT !.corner_type = t]
    IN  IF prev = None THEN set(TL)
        ELSE IF prev[1].east THEN set(T_DOWN)
        ELSE set(HOR)

\* RenderMazeGenerator.set_corner; top and prev are <<a cell>> or None
set_corner(col, top, prev) ==
    LET rcell == [RCell EXCEPT !.type = CORNER]
        set(t) == [rcell EXCEPT !.corner_type = t]
    IN  IF top = None
        THEN IF prev = None THEN set(TL)
             ELSE IF prev[1].east THEN set(T_DOWN)
             ELSE set(HOR)
        ELSE IF prev = None
        THEN IF col.north THEN set(T_RIGHT) ELSE set(VER)
        ELSE IF col.north
        THEN IF ~prev[1].north
             THEN IF col.west /\ top[1].west THEN set(T_RIGHT)
                  ELSE IF col.west /\ ~top[1].west THEN set(TL)
                  ELSE IF ~col.west /\ top[1].west THEN set(BL)
                  ELSE rcell
             ELSE IF ~col.west /\ ~top[1].west THEN set(HOR)
                  ELSE IF col.west /\ top[1].west THEN set(CROSS)
                  ELSE IF col.west /\ ~top[1].west THEN set(T_DOWN)
                  ELSE IF ~col.west /\ top[1].west THEN set(T_UP)
                  ELSE rcell
        ELSE IF prev[1].north
             THEN IF col.west /\ top[1].west THEN set(T_LEFT)
                  ELSE IF col.west /\ ~top[1].west THEN set(TR)
                  ELSE IF ~col.west /\ top[1].west THEN set(BR)
                  ELSE rcell
             ELSE IF col.west /\ top[1].west THEN set(VER)
                  ELSE rcell

\* RenderMazeGenerator.set_last_col_corner
set_last_col_corner(col) ==
    [RCell EXCEPT !.type = CORNER,
                  !.corner_type = IF col.north THEN T_LEFT ELSE VER]

\* the mutation of set_hor_wall that opens the segment under a wall
set_hor_wall_inverted(col, top) ==
    LET rcell == [RCell EXCEPT !.type = HORIZONTAL]
    IN  IF top = None THEN rcell
        ELSE IF col.north THEN [rcell EXCEPT !.open = TRUE]
        ELSE rcell

\* RenderMazeGenerator.set_hor_wall; `or` binds weaker than `and`
set_hor_wall(col, top) ==
    LET rcell == [RCell EXCEPT !.type = HORIZONTAL]
    IN  IF top = None THEN rcell
        ELSE IF ~col.north
        THEN LET open == [rcell EXCEPT !.open = TRUE]
             IN  IF cell_blocked(col) /\ cell_blocked(top[1])
                 THEN [open EXCEPT !.blocked = TRUE]
                 ELSE IF cell_path(col) /\ cell_path(top[1])
                 THEN [open EXCEPT !.path = TRUE]
                 ELSE IF cell_entry(top[1])
                         \/ (cell_exit(top[1]) /\ cell_path(col))
                 THEN [open EXCEPT !.path = TRUE]
                 ELSE IF cell_entry(col)
                         \/ (cell_exit(col) /\ cell_path(top[1]))
                 THEN [open EXCEPT !.path = TRUE]
                 ELSE open
        ELSE rcell

\* the mutation of set_ver_wall that marks the segment between two BLOCKED
\* cells whether there is a wall or not
set_ver_wall_continuous(col, prev) ==
    LET rcell == [RCell EXCEPT !.type = VERTICAL]
    IN  IF prev = None THEN rcell
        ELSE IF cell_blocked(col) /\ cell_blocked(prev[1])
        THEN [rcell EXCEPT !.open = ~col.west, !.blocked = TRUE]
        ELSE IF ~col.west
        THEN LET open == [rcell EXCEPT !.open = TRUE]
             IN  IF cell_path(col) /\ cell_path(prev[1])
                 THEN [open EXCEPT !.path = TRUE]
                 ELSE IF cell_exit(col)
                         \/ (cell_entry(col) /\ cell_path(prev[1]))
                 THEN [open EXCEPT !.path = TRUE]
                 ELSE IF (cell_path(col) /\ cell_entry(prev[1]))
                         \/ cell_exit(prev[1])
                 THEN [open EXCEPT !.path = TRUE]
                 ELSE open
        ELSE rcell

\* RenderMazeGenerator.set_ver_wall; `or` binds weaker than `and`
set_ver_wall(col, prev) ==
    LET rcell == [RCell EXCEPT !.type = VERTICAL]
    IN  IF prev = None THEN rcell
        ELSE IF ~col.west
        THEN LET open == [rcell EXCEPT !.open = TRUE]
             IN  IF cell_blocked(col) /\ cell_blocked(prev[1])
                 THEN [open EXCEPT !.blocked = TRUE]
                 ELSE IF cell_path(col) /\ cell_path(prev[1])
                 THEN [open EXCEPT !.path = TRUE]
                 ELSE IF cell_exit(col)
                         \/ (cell_entry(col) /\ cell_path(prev[1]))
                 THEN [open EXCEPT !.path = TRUE]
                 ELSE IF (cell_path(col) /\ cell_entry(prev[1]))
                         \/ cell_exit(prev[1])
                 THEN [open EXCEPT !.path = TRUE]
                 ELSE open
        ELSE rcell

\* RenderMazeGenerator.set_center
set_center(col) ==
    LET rcell == [RCell EXCEPT !.type = CENTER]
    IN  IF cell_blocked(col) THEN [rcell EXCEPT !.blocked = TRUE]
        ELSE IF cell_path(col) THEN [rcell EXCEPT !.path = TRUE]
        ELSE IF cell_entry(col) THEN [rcell EXCEPT !.entry = TRUE]
        ELSE IF cell_exit(col) THEN [rcell EXCEPT !.exit = TRUE]
        ELSE rcell

\* the mutation of set_last_row that makes every cell of the row a corner
set_last_row_corners(c, m) ==
    LET rcell == [RCell EXCEPT !.type = CORNER]
        row_m == m.height - 1
        col_m == c \div 2
    IN  IF c = 0 THEN [rcell EXCEPT !.corner_type = BL]
        ELSE IF col_m = m.width
        THEN [rcell EXCEPT !.type = CORNER, !.corner_type = BR]
        ELSE IF m.grid[<<col_m, row_m>>].west
        THEN [rcell EXCEPT !.corner_type = T_UP]
        ELSE [rcell EXCEPT !.corner_type = HOR]

\* RenderMazeGenerator.set_last_row
set_last_row(c, m) ==
    LET rcell == [RCell EXCEPT !.type = IF c % 2 = 0 THEN CORNER
                                       ELSE HORIZONTAL]
        row_m == m.height - 1
        col_m == c \div 2
    IN  IF c = 0 THEN [rcell EXCEPT !.corner_type = BL]
        ELSE IF col_m = m.width
        THEN [rcell EXCEPT !.type = CORNER, !.corner_type = BR]
        ELSE IF m.grid[<<col_m, row_m>>].west
        THEN [rcell EXCEPT !.corner_type = T_UP]
        ELSE [rcell EXCEPT !.corner_type = HOR]

\* RenderMazeGenerator.create: every cell of r_grid is assigned once, the
\* last row by set_last_row, the last column from the last Cell of the row,
\* the others from the Cell at (row div 2, col div 2)
create(m) ==
    LET render_maze == RenderMaze(m)
        last_row == render_maze.height - 1
        last_col == render_maze.width - 1
        r_cell(row, column) ==
            LET r == row \div 2
                c == column \div 2
            IN  IF row = last_row THEN set_last_row(column, m)
                ELSE IF column = last_col
                THEN IF row % 2 = 1
                     THEN [render_maze.grid[row][column]
                              EXCEPT !.type = VERTICAL]
                     ELSE IF r = 0
                     THEN [render_maze.grid[row][column]
                              EXCEPT !.type = CORNER, !.corner_type = TR]
                     ELSE set_last_col_corner(m.grid[<<m.width - 1, r>>])
                ELSE LET col == m.grid[<<c, r>>]
                         top == get_top_cell(r, c, m)
                         prev == get_prev_cell(r, c, m)
                     IN  IF row % 2 = 0 /\ column % 2 = 0
                         THEN set_corner(col, top, prev)
                         ELSE IF row % 2 = 0 THEN set_hor_wall(col, top)
                         ELSE IF column % 2 = 0 THEN set_ver_wall(col, prev)
                         ELSE set_center(col)
    IN  [render_maze EXCEPT !.grid =
            [row \in 0 .. last_row |->
                [column \in 0 .. last_col |-> r_cell(row, column)]]]

(***************************************************************************)
(* The random module.  FREE is the unconstrained generator; a number is    *)
(* the state of the linear congruential generator.  Every operator gives   *)
(* the set of the pairs <<value drawn, generator state afterwards>>.       *)
(***************************************************************************)
FREE == -1

NextRandom(r) == (r * 25173 + 13849) % 65536

\* random.seed(n)
random_seed(n) == n % 65536

\* the integer drawn below n (n >= 1) by shuffle
randbelow(r, n) ==
    IF r = FREE THEN {<<k, r>> : k \in 0 .. n - 1}
    ELSE {<<(NextRandom(r) * n) \div 65536, NextRandom(r)>>}

\* random.random() < 0.1
random_below_tenth(r) ==
    IF r = FREE THEN {<<b, r>> : b \in BOOLEAN}
    ELSE {<<NextRandom(r) * 10 < 65536, NextRandom(r)>>}

Swap(s, i, j) == [s EXCEPT ![i] = s[j], ![j] = s[i]]

\* random.shuffle: for i in reversed(range(1, len(x))): swap x[i], x[j]
\* with j drawn below i + 1
RECURSIVE ShuffleFrom(_, _, _)
ShuffleFrom(r, s, i) ==
    IF i <= 1 THEN {<<s, r>>}
    ELSE UNION {ShuffleFrom(d[2], Swap(s, i, d[1] + 1), i - 1) :
                    d \in randbelow(r, i)}

random_shuffle(r, s) == ShuffleFrom(r, s, Len(s))

(***************************************************************************)
(* config_parser.py: the Config objects the generator is run with          *)
(***************************************************************************)
\* Config.__post_init__: the four validations
ValidConfig(c) ==
    /\ c.width >= 2
    /\ c.height >= 2
    /\ ~(c.entry[1] < 0 \/ c.entry[1] > c.width - 1 \/
         c.entry[2] < 0 \/ c.entry[2] > c.height - 1)
    /\ ~(c.exit[1] < 0 \/ c.exit[1] > c.width - 1 \/
         c.exit[2] < 0 \/ c.exit[2] > c.height - 1)
    /\ ~(c.entry[1] = c.exit[1] /\ c.entry[2] = c.exit[2])

\* what constructing a Config raises: the class of the error and the
\* parameter it names, both empty when nothing is raised
Raised(class, parameter) == [error |-> class, parameter |-> parameter]

\* Config.validate_dimensions
validate_dimensions(c) ==
    IF c.width < 2 THEN Raised("DimensionsError", "WIDTH")
    ELSE IF c.height < 2 THEN Raised("DimensionsError", "HEIGHT")
    ELSE Raised("", "")

\* Config.validate_entry
validate_entry(c) ==
    IF c.entry[1] < 0 \/ c.entry[1] > c.width - 1 \/
       c.entry[2] < 0 \/ c.entry[2] > c.height - 1
    THEN Raised("PointBoundError", "ENTRY")
    ELSE Raised("", "")

\* Config.validate_exit
validate_exit(c) ==
    IF c.exit[1] < 0 \/ c.exit[1] > c.width - 1 \/
       c.exit[2] < 0 \/ c.exit[2] > c.height - 1
    THEN Raised("PointBoundError", "EXIT")
    ELSE Raised("", "")

\* Config.check_entry_vs_exit
check_entry_vs_exit(c) ==
    IF c.entry[1] = c.exit[1] /\ c.entry[2] = c.exit[2]
    THEN Raised("EntryExitError", "")
    ELSE Raised("", "")

\* the mutation of __post_init__ that validates the entry first
post_init_entry_first(c) ==
    IF validate_entry(c).error # "" THEN validate_entry(c)
    ELSE IF validate_dimensions(c).error # "" THEN validate_dimensions(c)
    ELSE IF validate_exit(c).error # "" THEN validate_exit(c)
    ELSE check_entry_vs_exit(c)

\* Config.__post_init__: the first of the four validations that raises
post_init(c) ==
    IF validate_dimensions(c).error # "" THEN validate_dimensions(c)
    ELSE IF validate_entry(c).error # "" THEN validate_entry(c)
    ELSE IF validate_exit(c).error # "" THEN validate_exit(c)
    ELSE check_entry_vs_exit(c)

\* grids on which every stream of the random module is followed
FreeSizes == {<<2, 2>>, <<3, 2>>, <<3, 3>>}

\* grids on which the streams of the absent seed and of the seeds 0 .. MaxSeed are followed
SeededSizes == {<<5, 5>>, <<6, 5>>, <<9, 7>>, <<10, 10>>}

FreeEnds ==
    { <<<<0, 0>>, <<1, 1>>>>, <<<<0, 0>>, <<2, 2>>>>, <<<<1, 1>>, <<0, 0>>>>,
      <<<<2, 1>>, <<0, 1>>>>, <<<<0, 0>>, <<1, 0>>>> }

SeededEnds ==
    { <<<<0, 0>>, <<1, 1>>>>, <<<<0, 0>>, <<4, 4>>>>, <<<<1, 2>>, <<4, 4>>>>,
      <<<<0, 0>>, <<1, 2>>>>, <<<<6, 6>>, <<9, 9>>>>, <<<<8, 6>>, <<0, 0>>>>,
      <<<<4, 1>>, <<7, 4>>>> }

Configs ==
    { c \in
        { [width |-> s[1], height |-> s[2], entry |-> e[1], exit |-> e[2],
           perfect |-> p, seed |-> None] :
             s \in FreeSizes, e \in FreeEnds, p \in BOOLEAN }
        \cup
        { [width |-> s[1], height |-> s[2], entry |-> e[1], exit |-> e[2],
           perfect |-> p, seed |-> n] :
             s \in SeededSizes, e \in SeededEnds, p \in BOOLEAN,
             n \in {None} \cup {<<k>> : k \in 0 .. MaxSeed} } :
      ValidConfig(c) }

(***************************************************************************)
(* errors.py                                                               *)
(***************************************************************************)
\* A string is the sequence of its pieces: a piece is a literal text or the
\* text of a list of coordinates.
Text(t) == <<[text |-> t, list |-> <<>>]>>

\* f"{list}"
Str(list) == <<[text |-> "", list |-> list]>>

\* EntryExitInFTError.__init__(pattern): the fixed text followed by
\* f"{pattern}"
EntryExitInFTError(pattern) ==
    Text("Entry/exit in '42' pattern. For this maze, entry/exit points can't be any of these coordinates: ")
    \o pattern

(***************************************************************************)
(* maze_generator.py                                                       *)
(***************************************************************************)
In(x, seq) == \E i \in DOMAIN seq : seq[i] = x

\* int(n / 2): the quotient truncated towards zero
int_half(n) == IF n >= 0 THEN n \div 2 ELSE -((-n) \div 2)

\* the mutation of draw_42 that embeds the pattern whatever the size
draw_42_unguarded(m) ==
    copy_from(m, maze_42,
              int_half(m.width - maze_42.width),
              int_half(m.height - maze_42.height)).maze

\* the mutation of draw_42 that asks for one column and one row less
draw_42_narrow(m) ==
    IF m.width < maze_42.width + 1 \/ m.height < maze_42.height + 1
    THEN m
    ELSE copy_from(m, maze_42,
                   int_half(m.width - maze_42.width),
                   int_half(m.height - maze_42.height)).maze

\* the mutation of draw_42 that pastes the template at the top left corner
draw_42_flush(m) ==
    IF m.width < maze_42.width + 2 \/ m.height < maze_42.height + 2
    THEN m
    ELSE copy_from(m, maze_42, 0, 0).maze

\* MazeGenerator.draw_42
draw_42(m) ==
    IF m.width < maze_42.width + 2 \/ m.height < maze_42.height + 2
    THEN m
    ELSE copy_from(m, maze_42,
                   int_half(m.width - maze_42.width),
                   int_half(m.height - maze_42.height)).maze

\* the mutation of get_unvisited_neighbors that looks at the west neighbour
\* whatever bottom_and_right_only is
unvisited_neighbors_west(cfg, vis, c, bottom_and_right_only) ==
    LET x == c[1]
        y == c[2]
    IN  (IF ~bottom_and_right_only /\ y > 0 /\ ~In(<<x, y - 1>>, vis)
         THEN <<<<c, <<x, y - 1>>>>>> ELSE <<>>)
        \o
        (IF x > 0 /\ ~In(<<x - 1, y>>, vis)
         THEN <<<<c, <<x - 1, y>>>>>> ELSE <<>>)
        \o
        (IF y < cfg.height - 1 /\ ~In(<<x, y + 1>>, vis)
         THEN <<<<c, <<x, y + 1>>>>>> ELSE <<>>)
        \o
        (IF x < cfg.width - 1 /\ ~In(<<x + 1, y>>, vis)
         THEN <<<<c, <<x + 1, y>>>>>> ELSE <<>>)

\* MazeGenerator.get_unvisited_neighbors before the shuffle: result
unvisited_neighbors(cfg, vis, c, bottom_and_right_only) ==
    LET x == c[1]
        y == c[2]
    IN  (IF ~bottom_and_right_only /\ y > 0 /\ ~In(<<x, y - 1>>, vis)
         THEN <<<<c, <<x, y - 1>>>>>> ELSE <<>>)
        \o
        (IF ~bottom_and_right_only /\ x > 0 /\ ~In(<<x - 1, y>>, vis)
         THEN <<<<c, <<x - 1, y>>>>>> ELSE <<>>)
        \o
        (IF y < cfg.height - 1 /\ ~In(<<x, y + 1>>, vis)
         THEN <<<<c, <<x, y + 1>>>>>> ELSE <<>>)
        \o
        (IF x < cfg.width - 1 /\ ~In(<<x + 1, y>>, vis)
         THEN <<<<c, <<x + 1, y>>>>>> ELSE <<>>)

\* MazeGenerator.get_unvisited_neighbors: the shuffled lists it may return,
\* each with the generator state afterwards
get_unvisited_neighbors(r, cfg, vis, c, bottom_and_right_only) ==
    random_shuffle(r, unvisited_neighbors(cfg, vis, c, bottom_and_right_only))

Max(a, b) == IF a > b THEN a ELSE b
Min(a, b) == IF a < b THEN a ELSE b

\* MazeGenerator.get_invalid_size_squares
get_invalid_size_squares(cfg, adj_cells) ==
    LET min_x == Max(Max(0, adj_cells[1][1] - 3 - 1),
                     Max(0, adj_cells[2][1] - 3 - 1))
        max_x == Min(Min(cfg.width - 3, adj_cells[1][1]),
                     Min(cfg.width - 3, adj_cells[2][1]))
        min_y == Max(Max(0, adj_cells[1][2] - 3 - 1),
                     Max(0, adj_cells[2][2] - 3 - 1))
        max_y == Min(Min(cfg.height - 3, adj_cells[1][2]),
                     Min(cfg.height - 3, adj_cells[2][2]))
        rows == Max(0, max_x + 1 - min_x)
        cols == Max(0, max_y + 1 - min_y)
    IN  [k \in 1 .. rows * cols |->
            LET row == min_x + (k - 1) \div cols
                col == min_y + ((k - 1) % cols)
            IN  [i \in 1 .. 9 |-> <<row + (i - 1) \div 3, col + ((i - 1) % 3)>>]]

\* the tally of remove_wall_if_valid for one square: inner_walls
inner_walls(m, square) ==
    LET B(a, b) == IF has_wall_between(m, square[a + 1], square[b + 1])
                   THEN 1 ELSE 0
        Row(x) == B(x, x + 1) + B(x + 1, x + 2)
        Col == B(0, 3) + B(1, 4) + B(2, 5)
    IN  Row(0) + Col + Row(3) + Col + Row(6)

\* the mutation of remove_wall_if_valid that never looks at the squares
remove_wall_unchecked(m, cfg, prev_coordinate, curr_coordinate) ==
    set_wall_at(m, prev_coordinate, curr_coordinate, FALSE)

\* the mutation of remove_wall_if_valid that puts the wall back between the
\* first two cells of the open square instead of the two cells it was given
remove_wall_restore_other(m, cfg, prev_coordinate, curr_coordinate) ==
    LET removed == set_wall_at(m, prev_coordinate, curr_coordinate, FALSE)
        squares == get_invalid_size_squares(
                       cfg, <<prev_coordinate, curr_coordinate>>)
        open == {k \in DOMAIN squares : inner_walls(removed, squares[k]) = 0}
    IN  IF open # {}
        THEN LET square == squares[CHOOSE k \in open :
                                       \A j \in open : k <= j]
             IN  set_wall_at(removed, square[1], square[2], TRUE)
        ELSE removed

\* MazeGenerator.remove_wall_if_valid
remove_wall_if_valid(m, cfg, prev_coordinate, curr_coordinate) ==
    LET removed == set_wall_at(m, prev_coordinate, curr_coordinate, FALSE)
        squares == get_invalid_size_squares(
                       cfg, <<prev_coordinate, curr_coordinate>>)
    IN  IF \E k \in DOMAIN squares : inner_walls(removed, squares[k]) = 0
        THEN set_wall_at(removed, prev_coordinate, curr_coordinate, TRUE)
        ELSE removed

\* the mutation of the for loop of solve_maze that puts a new coordinate at
\* the front of the frontier instead of its end
RECURSIVE ExpandFront(_, _, _, _)
ExpandFront(m, hist, frontier, neighbors) ==
    IF neighbors = <<>> THEN <<hist, frontier>>
    ELSE LET prev_coordinate == neighbors[1][1]
             curr_coordinate == neighbors[1][2]
         IN  IF /\ ~has_wall_between(m, prev_coordinate, curr_coordinate)
                /\ curr_coordinate \notin DOMAIN hist
             THEN ExpandFront(m, (curr_coordinate :> prev_coordinate) @@ hist,
                              <<curr_coordinate>> \o frontier,
                              Tail(neighbors))
             ELSE ExpandFront(m, hist, frontier, Tail(neighbors))

\* the for loop of solve_maze over the shuffled neighbours of one cell:
\* the predecessor map and the frontier afterwards
RECURSIVE Expand(_, _, _, _)
Expand(m, hist, frontier, neighbors) ==
    IF neighbors = <<>> THEN <<hist, frontier>>
    ELSE LET prev_coordinate == neighbors[1][1]
             curr_coordinate == neighbors[1][2]
         IN  IF /\ ~has_wall_between(m, prev_coordinate, curr_coordinate)
                /\ curr_coordinate \notin DOMAIN hist
             THEN Expand(m, (curr_coordinate :> prev_coordinate) @@ hist,
                         Append(frontier, curr_coordinate), Tail(neighbors))
             ELSE Expand(m, hist, frontier, Tail(neighbors))

\* the mutation of dict.get that answers the entry for a coordinate without
\* a predecessor
GetOrEntry(hist, c) ==
    IF c \in DOMAIN hist THEN hist[c]
    ELSE IF c = config.entry THEN None ELSE config.entry

\* dict.get
Get(hist, c) == IF c \in DOMAIN hist THEN hist[c] ELSE None

\* the mutation of list.reverse that leaves the list as it is
ReverseForgotten(s) == s

\* list.reverse
Reverse(s) == [i \in 1 .. Len(s) |-> s[Len(s) + 1 - i]]

(***************************************************************************)
(* The state machine.  pc is the position inside create_maze:              *)
(*   "init"   the generator is constructed, create_maze not yet called     *)
(*   "carve"  inside the while loop of carve_maze                          *)
(*   "braid"  inside the scan of make_imperfect                            *)
(*   "solve"  inside the frontier loop of solve_maze                       *)
(*   "walk"   inside the backward walk of solve_maze                       *)
(*   "done"   create_maze has returned the maze                            *)
(*   "error"  create_maze has raised EntryExitInFTError                    *)
(***************************************************************************)

\* MazeGenerator.__init__
Init ==
    /\ config \in Configs
    /\ rng = IF <<config.width, config.height>> \in FreeSizes THEN FREE
             ELSE random_seed(IF config.seed = None THEN 1
                              ELSE config.seed[1])
    /\ maze = Maze(0, 0)
    /\ visited = <<>>
    /\ pc = "init"
    /\ stack = <<>>
    /\ scan = 0
    /\ pending = <<>>
    /\ history = <<>>
    /\ coordinate = None
    /\ path = <<>>
    /\ error = None
    /\ calls = 0
    /\ first = None
    /\ fresh = TRUE
    /\ call = None
    /\ ret = None

\* the start of solve_maze: lines 183-185
EnterSolve ==
    /\ visited' = get_blocked_cells(maze)
    /\ stack' = <<config.entry>>
    /\ history' = (config.entry :> None)
    /\ pc' = "solve"

\* the mutation of the check of create_maze that looks at the entry only
in_pattern_entry_only(cfg, blocked) == In(cfg.entry, blocked)

\* the condition of the raise in create_maze: lines 62-65
in_pattern(cfg, blocked) ==
    In(cfg.entry, blocked) \/ In(cfg.exit, blocked)

\* create_maze up to the first iteration of carve_maze: lines 59-71, 104-106
create_maze ==
    /\ calls' = calls + 1
    /\ LET m == draw_42(Maze(config.width, config.height))
           blocked == get_blocked_cells(m)
       IN  /\ maze' = m
           /\ visited' = blocked
           /\ IF in_pattern(config, blocked)
              THEN /\ error' = EntryExitInFTError(
                        Text("Entry/exit points in '42' pattern. For this maze, points can't be any of these coordinates: ")
                        \o Str(blocked))
                   /\ pc' = "error"
                   /\ stack' = stack
              ELSE /\ error' = error
                   /\ pc' = "carve"
                   /\ stack' = <<<<config.entry, config.entry>>>>
    /\ UNCHANGED <<config, scan, pending, history, coordinate, path, first,
                   call, ret>>

\* the first create_maze of a generator, called right after __init__
CreateMaze ==
    /\ pc = "init"
    /\ create_maze
    /\ UNCHANGED <<rng, fresh>>

\* the mutation of the while loop of carve_maze that does not skip a
\* coordinate it has visited already
CarveStepUnchecked ==
    /\ UNCHANGED <<calls, first, fresh, call, ret>>
    /\ pc = "carve"
    /\ stack # <<>>
    /\ visited' = Append(visited, stack[1][2])
    /\ maze' = set_wall_at(maze, stack[1][1], stack[1][2], FALSE)
    /\ \E s \in get_unvisited_neighbors(rng, config, visited', stack[1][2],
                                         FALSE) :
           /\ stack' = s[1] \o Tail(stack)
           /\ rng' = s[2]
    /\ UNCHANGED <<config, pc, scan, pending, history, coordinate, path,
                   error>>

\* the mutation of the while loop of carve_maze that leaves a pair whose
\* coordinate has been visited on the work list
CarveStepNoPop ==
    /\ UNCHANGED <<calls, first, fresh, call, ret>>
    /\ pc = "carve"
    /\ stack # <<>>
    /\ LET previous_coordinate == stack[1][1]
           current_coordinate == stack[1][2]
       IN  IF In(current_coordinate, visited)
           THEN UNCHANGED <<stack, visited, maze, rng>>
           ELSE /\ visited' = Append(visited, current_coordinate)
                /\ maze' = set_wall_at(maze, previous_coordinate,
                                       current_coordinate, FALSE)
                /\ \E s \in get_unvisited_neighbors(
                                rng, config, visited', current_coordinate,
                                FALSE) :
                       /\ stack' = s[1] \o Tail(stack)
                       /\ rng' = s[2]
    /\ UNCHANGED <<config, pc, scan, pending, history, coordinate, path,
                   error>>

\* one iteration of the while loop of carve_maze: lines 108-117
CarveStep ==
    /\ UNCHANGED <<calls, first, fresh, call, ret>>
    /\ pc = "carve"
    /\ stack # <<>>
    /\ LET previous_coordinate == stack[1][1]
           current_coordinate == stack[1][2]
       IN  IF In(current_coordinate, visited)
           THEN /\ stack' = Tail(stack)
                /\ UNCHANGED <<visited, maze, rng>>
           ELSE /\ visited' = Append(visited, current_coordinate)
                /\ maze' = set_wall_at(maze, previous_coordinate,
                                       current_coordinate, FALSE)
                /\ \E s \in get_unvisited_neighbors(
                                rng, config, visited', current_coordinate,
                                FALSE) :
                       /\ stack' = s[1] \o Tail(stack)
                       /\ rng' = s[2]
    /\ UNCHANGED <<config, pc, scan, pending, history, coordinate, path,
                   error>>

\* carve_maze returns; create_maze goes on with make_imperfect (line 161)
\* or with solve_maze: lines 72-75
CarveReturn ==
    /\ UNCHANGED <<calls, first, fresh, call, ret>>
    /\ pc = "carve"
    /\ stack = <<>>
    /\ IF ~config.perfect
       THEN /\ visited' = get_blocked_cells(maze)
            /\ scan' = 0
            /\ pending' = <<>>
            /\ pc' = "braid"
            /\ UNCHANGED <<stack, history>>
       ELSE /\ EnterSolve
            /\ UNCHANGED <<scan, pending>>
    /\ UNCHANGED <<config, rng, maze, coordinate, path, error>>

\* make_imperfect takes the next coordinate of get_all_coordinates and
\* fetches its shuffled south and east neighbours: lines 163-166
MakeImperfectCell ==
    /\ UNCHANGED <<calls, first, fresh, call, ret>>
    /\ pc = "braid"
    /\ pending = <<>>
    /\ scan < Len(get_all_coordinates(maze))
    /\ scan' = scan + 1
    /\ LET c == get_all_coordinates(maze)[scan + 1]
       IN  IF get_cell(maze, c[1], c[2]).type = BLOCKED
           THEN UNCHANGED <<pending, rng>>
           ELSE \E s \in get_unvisited_neighbors(rng, config, visited, c,
                                                 TRUE) :
                    /\ pending' = s[1]
                    /\ rng' = s[2]
    /\ UNCHANGED <<config, maze, visited, pc, stack, history, coordinate,
                   path, error>>

\* the body of the inner for loop of make_imperfect for one neighbour:
\* lines 167-174
MakeImperfectEdge ==
    /\ UNCHANGED <<calls, first, fresh, call, ret>>
    /\ pc = "braid"
    /\ pending # <<>>
    /\ pending' = Tail(pending)
    /\ LET prev_coordinate == pending[1][1]
           curr_coordinate == pending[1][2]
       IN  IF has_wall_between(maze, prev_coordinate, curr_coordinate)
           THEN \E d \in random_below_tenth(rng) :
                    /\ rng' = d[2]
                    /\ maze' = IF d[1]
                               THEN remove_wall_if_valid(
                                        maze, config, prev_coordinate,
                                        curr_coordinate)
                               ELSE maze
           ELSE UNCHANGED <<maze, rng>>
    /\ UNCHANGED <<config, visited, pc, stack, scan, history, coordinate,
                   path, error>>

\* make_imperfect returns; create_maze goes on with solve_maze: line 75
MakeImperfectReturn ==
    /\ UNCHANGED <<calls, first, fresh, call, ret>>
    /\ pc = "braid"
    /\ pending = <<>>
    /\ scan = Len(get_all_coordinates(maze))
    /\ EnterSolve
    /\ UNCHANGED <<config, rng, maze, scan, pending, coordinate, path,
                   error>>

\* one iteration of the while loop of solve_maze, or its end: lines 187-204
SolveStep ==
    /\ UNCHANGED <<calls, first, fresh, call, ret>>
    /\ pc = "solve"
    /\ IF stack = <<>> \/ stack[1] = config.exit
       THEN /\ pc' = "walk"
            /\ stack' = IF stack = <<>> THEN stack ELSE Tail(stack)
            /\ coordinate' = config.exit
            /\ path' = <<>>
            /\ UNCHANGED <<history, rng>>
       ELSE /\ \E s \in get_unvisited_neighbors(rng, config, visited,
                                                stack[1], FALSE) :
                    LET e == Expand(maze, history, Tail(stack), s[1])
                    IN  /\ history' = e[1]
                        /\ stack' = e[2]
                        /\ rng' = s[2]
            /\ UNCHANGED <<pc, coordinate, path>>
    /\ UNCHANGED <<config, maze, visited, scan, pending, error>>

\* the mutation of the backward walk that marks the entry ENTRY at once
WalkStepEntry ==
    /\ UNCHANGED <<calls, first, fresh, call, ret>>
    /\ pc = "walk"
    /\ coordinate # None
    /\ maze' = set_type(maze, coordinate,
                        IF coordinate = config.entry THEN ENTRY ELSE PATH)
    /\ path' = Append(path, coordinate)
    /\ coordinate' = Get(history, coordinate)
    /\ UNCHANGED <<config, rng, visited, pc, stack, scan, pending, history,
                   error>>

\* one iteration of the backward walk of solve_maze: lines 205-208
WalkStep ==
    /\ UNCHANGED <<calls, first, fresh, call, ret>>
    /\ pc = "walk"
    /\ coordinate # None
    /\ maze' = set_type(maze, coordinate, PATH)
    /\ path' = Append(path, coordinate)
    /\ coordinate' = Get(history, coordinate)
    /\ UNCHANGED <<config, rng, visited, pc, stack, scan, pending, history,
                   error>>

\* the end of solve_maze and the return of create_maze: lines 210-213, 77
SolveReturn ==
    /\ pc = "walk"
    /\ coordinate = None
    /\ maze' = set_type(set_type(set_path(maze, Reverse(path)),
                                 config.entry, ENTRY),
                        config.exit, EXIT)
    /\ path' = Reverse(path)
    /\ pc' = "done"
    /\ first' = IF first = None THEN <<maze', path'>> ELSE first
    /\ UNCHANGED <<config, rng, visited, stack, scan, pending, history,
                   coordinate, error, calls, fresh, call, ret>>

Next ==
    \/ CreateMaze
    \/ CarveStep
    \/ CarveReturn
    \/ MakeImperfectCell
    \/ MakeImperfectEdge
    \/ MakeImperfectReturn
    \/ SolveStep
    \/ WalkStep
    \/ SolveReturn

Spec == Init /\ [][Next]_vars

\* an iteration, or the end, of one of the loops of carve_maze,
\* make_imperfect and solve_maze
Loops ==
    \/ CarveStep
    \/ CarveReturn
    \/ MakeImperfectCell
    \/ MakeImperfectEdge
    \/ MakeImperfectReturn
    \/ SolveStep
    \/ WalkStep
    \/ SolveReturn

\* create_maze runs in one thread without suspension points: a loop that
\* has a next iteration, or that can end, goes on
SpecLive == Init /\ [][Next]_vars /\ WF_vars(Loops)

(***************************************************************************)
(* Repeated generation in one process.  The state of `random` belongs to   *)
(* the process, not to the generator: only __init__ seeds it.              *)
(***************************************************************************)

\* the menu entry "Re-generate a new maze" of interact_with_user: a second
\* create_maze on the same MazeGenerator
CreateMazeAgain ==
    /\ pc = "done"
    /\ calls < MaxCalls
    /\ create_maze
    /\ fresh' = FALSE
    /\ UNCHANGED rng

\* the mutation of the constructor that does not seed `random`
ConstructUnseeded ==
    /\ pc = "done"
    /\ calls < MaxCalls
    /\ visited' = <<>>
    /\ maze' = Maze(0, 0)
    /\ pc' = "init"
    /\ fresh' = TRUE
    /\ UNCHANGED <<config, rng, stack, scan, pending, history, coordinate,
                   path, error, calls, first, call, ret>>

\* MazeGenerator(config) once more, with the configuration and the seed of
\* the generator that has run
Construct ==
    /\ pc = "done"
    /\ calls < MaxCalls
    /\ visited' = <<>>
    /\ maze' = Maze(0, 0)
    /\ rng' = random_seed(IF config.seed = None THEN 1 ELSE config.seed[1])
    /\ pc' = "init"
    /\ fresh' = TRUE
    /\ UNCHANGED <<config, stack, scan, pending, history, coordinate, path,
                   error, calls, first, call, ret>>

\* the generators whose stream of random numbers is followed
InitRepeat ==
    /\ Init
    /\ rng # FREE

NextRepeat ==
    \/ CreateMaze
    \/ CarveStep
    \/ CarveReturn
    \/ MakeImperfectCell
    \/ MakeImperfectEdge
    \/ MakeImperfectReturn
    \/ SolveStep
    \/ WalkStep
    \/ SolveReturn
    \/ CreateMazeAgain
    \/ Construct

SpecRepeat == InitRepeat /\ [][NextRepeat]_vars

(***************************************************************************)
(* Single calls of the methods.  `call` names the method and holds its     *)
(* arguments, the other variables hold the object it is called on, and     *)
(* `ret` receives what the call returns.  pc is "call" before the call and *)
(* "returned" after it.                                                    *)
(***************************************************************************)

\* the locals of the generator and the bookkeeping, at rest
Idle ==
    /\ pc = "call"
    /\ stack = <<>>
    /\ scan = 0
    /\ pending = <<>>
    /\ history = <<>>
    /\ coordinate = None
    /\ path = <<>>
    /\ error = None
    /\ calls = 0
    /\ first = None
    /\ fresh = TRUE
    /\ ret = None

\* a Config of the given size with the entry and the exit in two corners
Config(width, height) ==
    [width |-> width, height |-> height, entry |-> <<0, 0>>,
     exit |-> <<width - 1, height - 1>>, perfect |-> TRUE, seed |-> None]

\* create_maze up to line 59: self.maze = Maze(width, height)
InitDraw42 ==
    /\ \E width \in 2 .. MaxSide, height \in 2 .. MaxSide :
           /\ config = Config(width, height)
           /\ maze = Maze(width, height)
    /\ call = [op |-> "draw_42"]
    /\ rng = FREE
    /\ visited = <<>>
    /\ Idle

\* self.draw_42(): line 60
Draw42 ==
    /\ pc = "call"
    /\ call.op = "draw_42"
    /\ maze' = draw_42(maze)
    /\ pc' = "returned"
    /\ UNCHANGED <<config, rng, visited, stack, scan, pending, history,
                   coordinate, path, error, calls, first, fresh, call, ret>>

\* grids of three columns and rows: closed, and with some walls removed
SomeMazes ==
    { Maze(3, 3),
      set_wall_at(Maze(3, 3), <<0, 0>>, <<1, 0>>, FALSE),
      set_wall_at(set_wall_at(Maze(3, 3), <<1, 1>>, <<1, 2>>, FALSE),
                  <<1, 1>>, <<2, 1>>, FALSE) }

\* a grid and two coordinates inside it, adjacent or not
InitHasWallBetween ==
    /\ maze \in SomeMazes
    /\ config = Config(3, 3)
    /\ \E a \in Coords(3, 3), b \in Coords(3, 3) :
           call = [op |-> "has_wall_between", a |-> a, b |-> b]
    /\ rng = FREE
    /\ visited = <<>>
    /\ Idle

\* self.maze.has_wall_between(a, b)
HasWallBetween ==
    /\ pc = "call"
    /\ call.op = "has_wall_between"
    /\ ret' = has_wall_between_result(maze, call.a, call.b)
    /\ pc' = "returned"
    /\ UNCHANGED <<config, rng, maze, visited, stack, scan, pending, history,
                   coordinate, path, error, calls, first, fresh, call>>

\* the k-th pair of adjacent cells of a grid, the second cell to the east
\* of the first for the first (width - 1) * height pairs, to the south of
\* it for the others
edge(width, height, k) ==
    IF k <= (width - 1) * height
    THEN <<<<(k - 1) % (width - 1), (k - 1) \div (width - 1)>>,
           <<((k - 1) % (width - 1)) + 1, (k - 1) \div (width - 1)>>>>
    ELSE LET j == k - (width - 1) * height - 1
         IN  <<<<j % width, j \div width>>, <<j % width, (j \div width) + 1>>>>

\* the number of pairs of adjacent cells of a grid
edges(width, height) == (width - 1) * height + width * (height - 1)

\* m once set_wall_at(a, b, False) has been called for the pairs of the set
\* open that are numbered k or higher
RECURSIVE open_walls(_, _, _)
open_walls(m, open, k) ==
    IF k > edges(m.width, m.height) THEN m
    ELSE open_walls(IF k \in open
                    THEN set_wall_at(m, edge(m.width, m.height, k)[1],
                                     edge(m.width, m.height, k)[2], FALSE)
                    ELSE m,
                    open, k + 1)

\* the grid test_remove_wall_if_valid builds: the window at (0, 0) of a 5x5
\* grid is open but for the wall between (0, 1) and (1, 1)
test_maze ==
    open_walls(Maze(5, 5),
               {k \in 1 .. edges(5, 5) :
                   /\ edge(5, 5, k)[2][1] <= 2
                   /\ edge(5, 5, k)[2][2] <= 2
                   /\ edge(5, 5, k) # <<<<0, 1>>, <<1, 1>>>>},
               1)

\* a grid of three columns and rows with any of its twelve walls removed,
\* or the grid of the test, and two adjacent cells with a wall between them
InitRemoveWallIfValid ==
    /\ \/ /\ config = Config(3, 3)
          /\ \E open \in SUBSET (1 .. edges(3, 3)) :
                 maze = open_walls(Maze(3, 3), open, 1)
       \/ /\ config = Config(5, 5)
          /\ maze = test_maze
    /\ \E k \in 1 .. edges(config.width, config.height) :
           LET e == edge(config.width, config.height, k)
           IN  /\ has_wall_between(maze, e[1], e[2])
               /\ call = [op |-> "remove_wall_if_valid", a |-> e[1],
                          b |-> e[2], before |-> maze]
    /\ rng = FREE
    /\ visited = <<>>
    /\ Idle

\* self.remove_wall_if_valid(a, b)
RemoveWallIfValid ==
    /\ pc = "call"
    /\ call.op = "remove_wall_if_valid"
    /\ maze' = remove_wall_if_valid(maze, config, call.a, call.b)
    /\ pc' = "returned"
    /\ UNCHANGED <<config, rng, visited, stack, scan, pending, history,
                   coordinate, path, error, calls, first, fresh, call, ret>>

\* a generator for a grid of five columns and rows, as the tests build it,
\* or for a smaller one, and two adjacent cells in either order
InitGetInvalidSizeSquares ==
    /\ \E side \in 3 .. 5 :
           /\ config = Config(side, side)
           /\ maze = Maze(side, side)
           /\ \E k \in 1 .. edges(side, side) :
                  \/ call = [op |-> "get_invalid_size_squares",
                             adj_cells |-> edge(side, side, k)]
                  \/ call = [op |-> "get_invalid_size_squares",
                             adj_cells |-> <<edge(side, side, k)[2],
                                             edge(side, side, k)[1]>>]
    /\ rng = FREE
    /\ visited = <<>>
    /\ Idle

\* self.get_invalid_size_squares(adj_cells)
GetInvalidSizeSquares ==
    /\ pc = "call"
    /\ call.op = "get_invalid_size_squares"
    /\ ret' = get_invalid_size_squares(config, call.adj_cells)
    /\ pc' = "returned"
    /\ UNCHANGED <<config, rng, maze, visited, stack, scan, pending, history,
                   coordinate, path, error, calls, first, fresh, call>>

\* a generator for a grid of three columns and rows, any of its cells, and
\* as self.visited any of the cells around it, and the cell itself, listed
\* in the order of get_all_coordinates; or the calls of
\* test_unvisited_neighbors
InitGetUnvisitedNeighbors ==
    /\ \/ /\ config = Config(3, 3)
          /\ maze = Maze(3, 3)
          /\ \E c \in Coords(3, 3), b \in BOOLEAN :
                 /\ call = [op |-> "get_unvisited_neighbors",
                            coordinate |-> c, bottom_and_right_only |-> b]
                 /\ \E seen \in SUBSET {d \in Coords(3, 3) :
                                          d[1] = c[1] \/ d[2] = c[2]} :
                        visited = SelectSeq(get_all_coordinates(maze),
                                            LAMBDA d : d \in seen)
       \/ /\ config = Config(5, 5)
          /\ maze = Maze(5, 5)
          /\ \E b \in BOOLEAN :
                 call = [op |-> "get_unvisited_neighbors",
                         coordinate |-> <<1, 1>>, bottom_and_right_only |-> b]
          /\ visited \in {<<>>, <<<<1, 0>>>>}
    /\ rng = FREE
    /\ Idle

\* self.get_unvisited_neighbors(coordinate, bottom_and_right_only)
GetUnvisitedNeighbors ==
    /\ pc = "call"
    /\ call.op = "get_unvisited_neighbors"
    /\ \E s \in get_unvisited_neighbors(rng, config, visited, call.coordinate,
                                         call.bottom_and_right_only) :
           /\ ret' = s[1]
           /\ rng' = s[2]
    /\ pc' = "returned"
    /\ UNCHANGED <<config, maze, visited, stack, scan, pending, history,
                   coordinate, path, error, calls, first, fresh, call>>

\* the grids handed to the renderer: closed ones, the smallest one that
\* holds the pattern, and those of three columns and rows with any of their
\* twelve walls removed
InitCreate ==
    /\ \/ \E width \in 2 .. MaxRender, height \in 2 .. MaxRender :
             /\ config = Config(width, height)
             /\ maze = Maze(width, height)
       \/ /\ config = Config(9, 7)
          /\ maze = draw_42(Maze(9, 7))
       \/ /\ config = Config(3, 3)
          /\ \E open \in SUBSET (1 .. edges(3, 3)) :
                 maze = open_walls(Maze(3, 3), open, 1)
    /\ call = [op |-> "create"]
    /\ rng = FREE
    /\ visited = <<>>
    /\ Idle

\* RenderMazeGenerator().create(maze)
Create ==
    /\ pc = "call"
    /\ call.op = "create"
    /\ ret' = create(maze)
    /\ pc' = "returned"
    /\ UNCHANGED <<config, rng, maze, visited, stack, scan, pending, history,
                   coordinate, path, error, calls, first, fresh, call>>

\* a source of two columns and rows, all its cells BLOCKED
source_maze ==
    [Maze(2, 2) EXCEPT !.grid = [c \in DOMAIN @ |-> [@[c] EXCEPT !.type = BLOCKED]]]

\* the offsets copy_from is called with
Offsets == -3 .. 3

\* a closed destination and offsets that keep the source inside it or not
InitCopyFrom ==
    /\ \E size \in {<<3, 3>>, <<4, 3>>} :
           /\ config = Config(size[1], size[2])
           /\ maze = Maze(size[1], size[2])
    /\ \E offset_x \in Offsets, offset_y \in Offsets :
           call = [op |-> "copy_from", source |-> source_maze,
                   offset_x |-> offset_x, offset_y |-> offset_y,
                   before |-> maze]
    /\ rng = FREE
    /\ visited = <<>>
    /\ Idle

\* self.maze.copy_from(source, offset_x, offset_y)
CopyFrom ==
    /\ pc = "call"
    /\ call.op = "copy_from"
    /\ LET result == copy_from(maze, call.source, call.offset_x,
                               call.offset_y)
       IN  /\ maze' = result.maze
           /\ ret' = [raised |-> result.raised]
    /\ pc' = "returned"
    /\ UNCHANGED <<config, rng, visited, stack, scan, pending, history,
                   coordinate, path, error, calls, first, fresh, call>>

\* the fields Config(...) is constructed with
InitPostInit ==
    /\ \E width \in {-1} \cup (1 .. MaxDim), height \in {-1} \cup (1 .. MaxDim),
          entry \in (-1 .. MaxDim - 1) \X (-1 .. MaxDim - 1),
          exit \in (-1 .. MaxDim - 1) \X (-1 .. MaxDim - 1) :
           config = [width |-> width, height |-> height, entry |-> entry,
                     exit |-> exit, perfect |-> TRUE, seed |-> None]
    /\ maze = Maze(0, 0)
    /\ call = [op |-> "Config"]
    /\ rng = FREE
    /\ visited = <<>>
    /\ Idle

\* Config(width=..., height=..., entry=..., exit=..., ...)
PostInit ==
    /\ pc = "call"
    /\ call.op = "Config"
    /\ ret' = post_init(config)
    /\ pc' = "returned"
    /\ UNCHANGED <<config, rng, maze, visited, stack, scan, pending, history,
                   coordinate, path, error, calls, first, fresh, call>>

\* the cells set_corner is called with: any walls at the west, at the east
\* and at the north
Corners ==
    { [Cell EXCEPT !.west = w, !.east = e, !.north = n] :
        w \in BOOLEAN, e \in BOOLEAN, n \in BOOLEAN }

\* the cell of a corner, the cell above it and the cell at its left, where
\* there is one
InitSetCorner ==
    /\ config = Config(2, 2)
    /\ maze = Maze(2, 2)
    /\ \E col \in Corners, top \in {None} \cup {<<c>> : c \in Corners},
          prev \in {None} \cup {<<c>> : c \in Corners} :
           call = [op |-> "set_corner", col |-> col, top |-> top,
                   prev |-> prev]
    /\ rng = FREE
    /\ visited = <<>>
    /\ Idle

\* RenderMazeGenerator.set_corner(col, top, prev)
SetCorner ==
    /\ pc = "call"
    /\ call.op = "set_corner"
    /\ ret' = set_corner(call.col, call.top, call.prev)
    /\ pc' = "returned"
    /\ UNCHANGED <<config, rng, maze, visited, stack, scan, pending, history,
                   coordinate, path, error, calls, first, fresh, call>>

InitCalls ==
    \/ InitDraw42
    \/ InitHasWallBetween
    \/ InitRemoveWallIfValid
    \/ InitGetInvalidSizeSquares
    \/ InitGetUnvisitedNeighbors
    \/ InitCreate
    \/ InitCopyFrom
    \/ InitPostInit
    \/ InitSetCorner

NextCalls ==
    \/ Draw42
    \/ HasWallBetween
    \/ RemoveWallIfValid
    \/ GetInvalidSizeSquares
    \/ GetUnvisitedNeighbors
    \/ Create
    \/ CopyFrom
    \/ PostInit
    \/ SetCorner

SpecCalls == InitCalls /\ [][NextCalls]_vars

(***************************************************************************)
(* solve_maze on its own, on grids whose entry and exit may be walled      *)
(* apart.  The program is single-threaded and takes its next step whenever *)
(* it has one.                                                             *)
(***************************************************************************)

\* the ends solve_maze is run with on a grid of three columns and two rows
SolveEnds ==
    { <<<<0, 0>>, <<1, 1>>>>, <<<<1, 1>>, <<0, 0>>>>, <<<<2, 1>>, <<0, 1>>>>,
      <<<<0, 0>>, <<2, 1>>>> }

\* a generator whose maze has any of its seven inner walls removed
InitSolve ==
    /\ \E e \in SolveEnds :
           config = [Config(3, 2) EXCEPT !.entry = e[1], !.exit = e[2]]
    /\ \E open \in SUBSET (1 .. edges(3, 2)) :
           maze = open_walls(Maze(3, 2), open, 1)
    /\ call = [op |-> "solve_maze"]
    /\ rng = FREE
    /\ visited = <<>>
    /\ Idle

\* self.solve_maze(): lines 183-185
SolveMaze ==
    /\ pc = "call"
    /\ call.op = "solve_maze"
    /\ EnterSolve
    /\ UNCHANGED <<config, rng, maze, scan, pending, coordinate, path, error,
                   calls, first, fresh, call, ret>>

NextSolve ==
    \/ SolveMaze
    \/ SolveStep
    \/ WalkStep
    \/ SolveReturn

SpecSolve == InitSolve /\ [][NextSolve]_vars /\ WF_vars(NextSolve)

(***************************************************************************)
(* create_maze followed by the rendering of the maze it returned.          *)
(***************************************************************************)

\* AsciiPrinter.print_maze up to the call of RenderMazeGenerator.create
PrintMaze ==
    /\ pc = "done"
    /\ ret' = create(maze)
    /\ pc' = "printed"
    /\ UNCHANGED <<config, rng, maze, visited, stack, scan, pending, history,
                   coordinate, path, error, calls, first, fresh, call>>

NextRender ==
    \/ CreateMaze
    \/ CarveStep
    \/ CarveReturn
    \/ MakeImperfectCell
    \/ MakeImperfectEdge
    \/ MakeImperfectReturn
    \/ SolveStep
    \/ WalkStep
    \/ SolveReturn
    \/ PrintMaze

SpecRender == Init /\ [][NextRender]_vars

(***************************************************************************)
(* Vocabulary of the properties                                            *)
(***************************************************************************)
Cells == DOMAIN maze.grid

NonBlocked == {c \in Cells : maze.grid[c].type # BLOCKED}

\* the in-grid coordinates adjacent to c
Around(c) ==
    {<<c[1], c[2] - 1>>, <<c[1] - 1, c[2]>>, <<c[1], c[2] + 1>>,
     <<c[1] + 1, c[2]>>} \cap Cells

\* the pairs <<a, b>> of adjacent cells with b to the east or south of a
Edges ==
    {<<<<x, y>>, <<x + 1, y>>>> : x \in 0 .. maze.width - 2,
                                 y \in 0 .. maze.height - 1}
    \cup
    {<<<<x, y>>, <<x, y + 1>>>> : x \in 0 .. maze.width - 1,
                                 y \in 0 .. maze.height - 2}

\* there is a passage between the adjacent cells a and b
Passage(a, b) == ~has_wall_between(maze, a, b) /\ ~has_wall_between(maze, b, a)

Passages == {e \in Edges : Passage(e[1], e[2])}

AllWallsPresent ==
    \A c \in Cells :
        /\ maze.grid[c].west /\ maze.grid[c].south
        /\ maze.grid[c].east /\ maze.grid[c].north

\* how often x occurs in the sequence seq
Count(x, seq) == Cardinality({i \in DOMAIN seq : seq[i] = x})

\* the cells that wall-free moves over non-blocked cells reach from the set
\* front, seen being those reached before
RECURSIVE ReachFrom(_, _)
ReachFrom(front, seen) ==
    IF front = {} THEN seen
    ELSE LET next == {d \in NonBlocked \ seen :
                        \E c \in front : d \in Around(c) /\ Passage(c, d)}
         IN  ReachFrom(next, seen \cup next)

\* the number of coordinates of a shortest wall-free route over non-blocked
\* cells from the set front (at n coordinates from the start) to the
\* target; 0 if there is none
RECURSIVE ShortestFrom(_, _, _, _)
ShortestFrom(front, seen, n, target) ==
    IF target \in front THEN n
    ELSE IF front = {} THEN 0
    ELSE LET next == {d \in NonBlocked \ seen :
                        \E c \in front : d \in Around(c) /\ Passage(c, d)}
         IN  ShortestFrom(next, seen \cup next, n + 1, target)

RECURSIVE SumOver(_, _)
SumOver(f, S) ==
    IF S = {} THEN 0
    ELSE LET x == CHOOSE x \in S : TRUE
         IN  f[x] + SumOver(f, S \ {x})

\* the number of simple wall-free routes over non-blocked cells from a to
\* b that avoid the cells of seen
RECURSIVE SimplePaths(_, _, _)
SimplePaths(a, b, seen) ==
    IF a = b THEN 1
    ELSE LET next == {d \in (Around(a) \cap NonBlocked) \ seen :
                        Passage(a, d)}
         IN  SumOver([d \in next |-> SimplePaths(d, b, seen \cup {d})], next)

\* the 3x3 windows inside the grid, each named by its top left cell
Windows == (0 .. maze.width - 3) \X (0 .. maze.height - 3)

\* the window at o has no wall between any two of its adjacent cells
AllOpen(o) ==
    \A i \in 0 .. 2 : \A j \in 0 .. 2 :
        /\ i < 2 => Passage(<<o[1] + i, o[2] + j>>, <<o[1] + i + 1, o[2] + j>>)
        /\ j < 2 => Passage(<<o[1] + i, o[2] + j>>, <<o[1] + i, o[2] + j + 1>>)

(***************************************************************************)
(* C1  With perfect=True the passages of the maze returned by create_maze  *)
(* form a spanning tree over the non-blocked cells: the number of removed  *)
(* walls is the number of non-blocked cells minus one, every non-blocked   *)
(* cell is reached from the entry, there is exactly one simple wall-free   *)
(* route from entry to exit, and when carve_maze ends every non-blocked    *)
(* cell has been visited exactly once.                                     *)
(***************************************************************************)
C1_SpanningTree ==
    /\ (pc = "carve" /\ stack = <<>> /\ config.perfect) =>
          \A c \in Cells : Count(c, visited) = 1
    /\ (pc = "done" /\ config.perfect) =>
          /\ Cardinality(Passages) = Cardinality(NonBlocked) - 1
          /\ ReachFrom({config.entry}, {config.entry}) = NonBlocked
          /\ SimplePaths(config.entry, config.exit, {config.entry}) = 1

C1_Witness ==
    /\ pc = "done"
    /\ config.perfect
    /\ Cardinality(NonBlocked) = 30
    /\ Cardinality(Passages) = 29

(***************************************************************************)
(* C2  In every state of create_maze the wall between two adjacent cells   *)
(* is the same seen from either cell.                                      *)
(***************************************************************************)
C2_WallSymmetry ==
    \A e \in Edges :
        has_wall_between(maze, e[1], e[2]) = has_wall_between(maze, e[2], e[1])

C2_Witness ==
    /\ pc = "solve"
    /\ ~config.perfect
    /\ Cardinality(Passages) > Cardinality(NonBlocked) - 1
    /\ Cardinality(NonBlocked) < Cardinality(Cells)

(***************************************************************************)
(* C3  When create_maze has returned, the stored path starts at the entry, *)
(* ends at the exit, moves between adjacent cells without a wall between   *)
(* them and holds no BLOCKED cell; the entry has type ENTRY, the exit type *)
(* EXIT, the other cells of the path type PATH, and no cell off the path   *)
(* has type PATH, ENTRY or EXIT.                                           *)
(***************************************************************************)
OnPath(c) == In(c, maze.path)

C3_PathCorrect ==
    pc = "done" =>
        /\ maze.path # <<>>
        /\ maze.path[1] = config.entry
        /\ maze.path[Len(maze.path)] = config.exit
        /\ \A i \in 1 .. Len(maze.path) - 1 :
              /\ maze.path[i + 1] \in Around(maze.path[i])
              /\ ~has_wall_between(maze, maze.path[i], maze.path[i + 1])
        /\ \A c \in Cells :
              maze.grid[c].type =
                  IF c = config.exit THEN EXIT
                  ELSE IF c = config.entry THEN ENTRY
                  ELSE IF OnPath(c) THEN PATH
                  ELSE IF c \in {<<b[1] + ((config.width - 7) \div 2),
                                   b[2] + ((config.height - 5) \div 2)>> :
                                     b \in Blocked42}
                          /\ config.width >= 9 /\ config.height >= 7
                       THEN BLOCKED
                  ELSE OPEN

C3_Witness ==
    /\ pc = "done"
    /\ Len(maze.path) >= 5
    /\ ~config.perfect
    /\ Cardinality(NonBlocked) < Cardinality(Cells)

(***************************************************************************)
(* C4  The stored path is a shortest one: no wall-free route from entry to *)
(* exit over non-blocked cells has fewer coordinates, in perfect and in    *)
(* braided mazes, whatever the order of the shuffled neighbours.           *)
(***************************************************************************)
C4_ShortestPath ==
    pc = "done" =>
        Len(maze.path) =
            ShortestFrom({config.entry}, {config.entry}, 1, config.exit)

\* a braided maze with more than one route from entry to exit
C4_Witness ==
    /\ pc = "done"
    /\ ~config.perfect
    /\ config.width * config.height <= 9
    /\ SimplePaths(config.entry, config.exit, {config.entry}) >= 3

(***************************************************************************)
(* C5  During and after make_imperfect no 3x3 window inside the grid is    *)
(* all-open: after every completed remove_wall_if_valid every window has a *)
(* wall between two of its adjacent cells.                                 *)
(***************************************************************************)
C5_NoOpenWindow ==
    (~config.perfect /\ pc \in {"braid", "solve", "walk", "done"}) =>
        \A o \in Windows : ~AllOpen(o)

\* braiding has removed walls of a grid that has a window
C5_Witness ==
    /\ pc = "done"
    /\ ~config.perfect
    /\ Windows # {}
    /\ Cardinality(Passages) >= Cardinality(NonBlocked) + 1

Sides == {"west", "south", "east", "north"}

\* the cells that are BLOCKED when the pattern has been embedded
Embedded ==
    LET m == draw_42(Maze(config.width, config.height))
    IN  {c \in DOMAIN m.grid : m.grid[c].type = BLOCKED}

(***************************************************************************)
(* C6  Braiding only removes walls: no step of make_imperfect, a completed *)
(* remove_wall_if_valid included, leaves a wall where there was none, so   *)
(* every passage of carve_maze is still a passage afterwards.              *)
(***************************************************************************)
C6_BraidOnlyRemoves ==
    [][pc = "braid" =>
          \A c \in Cells : \A side \in Sides :
              maze'.grid[c][side] => maze.grid[c][side]]_vars

\* braiding has removed a wall, and the wall it looks at next is one that
\* remove_wall_if_valid puts back
C6_Witness ==
    /\ pc = "braid"
    /\ Cardinality(Passages) > Cardinality(NonBlocked) - 1
    /\ pending # <<>>
    /\ has_wall_between(maze, pending[1][1], pending[1][2])
    /\ remove_wall_if_valid(maze, config, pending[1][1], pending[1][2]) = maze

(***************************************************************************)
(* C7  From the embedding of the pattern until create_maze returns, the    *)
(* BLOCKED cells are the cells that were BLOCKED after the embedding, and  *)
(* each of them has its four walls.                                        *)
(***************************************************************************)
C7_BlockedUntouched ==
    pc # "init" =>
        LET embedded == Embedded
        IN  \A c \in Cells :
                IF c \in embedded
                THEN /\ maze.grid[c].type = BLOCKED
                     /\ \A side \in Sides : maze.grid[c][side]
                ELSE maze.grid[c].type # BLOCKED

\* a braided and solved maze that holds the pattern
C7_Witness ==
    /\ pc = "done"
    /\ ~config.perfect
    /\ Cardinality(Embedded) = 20
    /\ Cardinality(Passages) > Cardinality(NonBlocked) - 1

(***************************************************************************)
(* C8  create_maze raises the entry/exit-in-pattern error exactly if the   *)
(* entry or the exit is BLOCKED after the embedding, and it raises it      *)
(* before carving: every wall is present, no cell has type PATH, ENTRY or  *)
(* EXIT, and the stored path is empty.                                     *)
(***************************************************************************)
C8_RaisedBeforeCarving ==
    pc # "init" =>
        /\ (pc = "error") <=>
               (config.entry \in Embedded \/ config.exit \in Embedded)
        /\ pc = "error" =>
               /\ error # None
               /\ AllWallsPresent
               /\ \A c \in Cells : maze.grid[c].type \notin {PATH, ENTRY, EXIT}
               /\ maze.path = <<>>

\* the error raised for an exit in the pattern, the entry being outside
C8_Witness ==
    /\ pc = "error"
    /\ config.exit \in Embedded
    /\ config.entry \notin Embedded

(***************************************************************************)
(* C9  The message of the error raised by create_maze is the fixed text    *)
(* of EntryExitInFTError followed by the list of the BLOCKED coordinates   *)
(* in y-major, x-minor order, and nothing else.                            *)
(***************************************************************************)
C9_MessageIsTextAndList ==
    pc = "error" =>
        error = Text("Entry/exit in '42' pattern. For this maze, entry/exit points can't be any of these coordinates: ")
                \o Str(get_blocked_cells(maze))

(***************************************************************************)
(* C10  On a 5x5 grid with exit (4,4) and entry (1,2) create_maze raises   *)
(* the entry/exit-in-pattern error before any wall is removed.             *)
(***************************************************************************)
C10_ErrorOn5x5 ==
    (/\ pc # "init"
     /\ config.width = 5 /\ config.height = 5
     /\ config.entry = <<1, 2>> /\ config.exit = <<4, 4>>) =>
        (pc = "error" /\ AllWallsPresent)

(***************************************************************************)
(* C10 as amended: on a 5x5 grid the pattern is not embedded and entry     *)
(* (1,2) with exit (4,4) raises no error; on a 10x10 grid, where (1,2) is  *)
(* BLOCKED, entry (1,2) with exit (4,4) raises the error before any wall   *)
(* is removed.                                                             *)
(***************************************************************************)
C10_ErrorOnlyWithPattern ==
    (/\ pc # "init"
     /\ config.entry = <<1, 2>> /\ config.exit = <<4, 4>>) =>
        /\ (config.width = 5 /\ config.height = 5) =>
               (pc # "error" /\ error = None /\ NonBlocked = Cells)
        /\ (config.width = 10 /\ config.height = 10) =>
               (pc = "error" /\ AllWallsPresent)

\* create_maze has returned a 5x5 maze with entry (1,2)
C10_Witness ==
    /\ pc = "done"
    /\ config.width = 5 /\ config.height = 5
    /\ config.entry = <<1, 2>> /\ config.exit = <<4, 4>>
    /\ maze.path # <<>>

\* C13 as stated: every create_maze of one configuration and seed returns
\* the wall layout and the path of the first one, a second create_maze on
\* the same generator included
C13_EveryCallSame ==
    (pc = "done" /\ first # None) => <<maze, path>> = first

\* C13: a create_maze called right after the constructor has seeded
\* `random` returns the wall layout and the path of the first such call
\* with the same configuration and seed
C13_SameAfterSeeding ==
    (pc = "done" /\ fresh) => <<maze, path>> = first

\* a generator constructed again with the same configuration has returned
C13_Witness == pc = "done" /\ fresh /\ calls = 2 /\ ~config.perfect

\* the cells of the template that are BLOCKED, moved by (x0, y0)
Translated(x0, y0) == {<<b[1] + x0, b[2] + y0>> : b \in Blocked42}

\* C11: draw_42 embeds the template iff width >= 9 and height >= 7; then
\* the BLOCKED cells are the 20 blocked cells of the template moved by
\* (floor((width-7)/2), floor((height-5)/2)) and every wall is present;
\* else the grid is the one Maze(width, height) built
C11_Embedding ==
    (pc = "returned" /\ call.op = "draw_42") =>
        IF maze.width >= 9 /\ maze.height >= 7
        THEN /\ {c \in Cells : maze.grid[c].type = BLOCKED}
                  = Translated((maze.width - 7) \div 2,
                               (maze.height - 5) \div 2)
             /\ Cardinality({c \in Cells : maze.grid[c].type = BLOCKED}) = 20
             /\ \A c \in NonBlocked : maze.grid[c].type = OPEN
             /\ AllWallsPresent
        ELSE /\ maze = Maze(maze.width, maze.height)
             /\ \A c \in Cells : maze.grid[c].type # BLOCKED

\* draw_42 has returned on the smallest grid that holds the pattern
C11_Witness ==
    /\ pc = "returned" /\ call.op = "draw_42"
    /\ maze.width = 9 /\ maze.height = 7
    /\ maze.grid[<<1, 1>>].type = BLOCKED

\* a and b are next to each other on one axis
Adjacent(a, b) ==
    \/ a[1] = b[1] /\ (a[2] - b[2] = 1 \/ b[2] - a[2] = 1)
    \/ a[2] = b[2] /\ (a[1] - b[1] = 1 \/ b[1] - a[1] = 1)

\* C12: has_wall_between(a, b) aborts with an error whenever a and b are
\* identical or not adjacent, and returns a boolean only for adjacent a, b
C12_AbortsUnlessAdjacent ==
    (pc = "returned" /\ call.op = "has_wall_between") =>
        (ret.raised <=> ~Adjacent(call.a, call.b))

\* the 3x3 window of m at o has no wall between any two of its adjacent
\* cells
FullyOpen(m, o) ==
    \A i \in 0 .. 2 : \A j \in 0 .. 2 :
        /\ i < 2 => /\ ~m.grid[<<o[1] + i, o[2] + j>>].east
                    /\ ~m.grid[<<o[1] + i + 1, o[2] + j>>].west
        /\ j < 2 => /\ ~m.grid[<<o[1] + i, o[2] + j>>].south
                    /\ ~m.grid[<<o[1] + i, o[2] + j + 1>>].north

\* the 3x3 windows inside the grid that contain both a and b
WindowsWith(a, b) ==
    {o \in Windows : \A c \in {a, b} : /\ c[1] - o[1] \in 0 .. 2
                                        /\ c[2] - o[2] \in 0 .. 2}

\* C14: remove_wall_if_valid(a, b), called with a wall between a and b,
\* leaves that wall iff removing it makes some 3x3 window that contains a
\* and b fully open, and removes it otherwise; no other wall differs
C14_KeptIffWindowOpens ==
    (pc = "returned" /\ call.op = "remove_wall_if_valid") =>
        LET removed == set_wall_at(call.before, call.a, call.b, FALSE)
        IN  IF \E o \in WindowsWith(call.a, call.b) : FullyOpen(removed, o)
            THEN maze = call.before
            ELSE maze = removed

\* the nine coordinates of the 3x3 square at (x0, y0), x varying fastest
RowMajor(x0, y0) ==
    [i \in 1 .. 9 |-> <<x0 + ((i - 1) % 3), y0 + ((i - 1) \div 3)>>]

\* C15: get_invalid_size_squares lists each square as nine coordinates with
\* x varying fastest, and returns for ((0,1),(1,1)) on a 5x5 grid the
\* square at (0,0) followed by the square at (0,1)
C15_RowMajorSquares ==
    (pc = "returned" /\ call.op = "get_invalid_size_squares") =>
        /\ \A i \in DOMAIN ret : ret[i] = RowMajor(ret[i][1][1], ret[i][1][2])
        /\ (config.width = 5 /\ call.adj_cells = <<<<0, 1>>, <<1, 1>>>>) =>
               ret = <<RowMajor(0, 0), RowMajor(0, 1)>>

\* the 4-neighbours of c the call is to look at
Looked(c, bottom_and_right_only) ==
    IF bottom_and_right_only
    THEN {<<c[1], c[2] + 1>>, <<c[1] + 1, c[2]>>}
    ELSE {<<c[1], c[2] - 1>>, <<c[1] - 1, c[2]>>, <<c[1], c[2] + 1>>,
          <<c[1] + 1, c[2]>>}

\* C16: get_unvisited_neighbors(c) returns, as a set, exactly the pairs
\* (c, n) for the in-bounds 4-neighbours n of c that are not in visited,
\* the south and east ones only with bottom_and_right_only; the shuffle
\* changes the order only
C16_UnvisitedNeighbors ==
    (pc = "returned" /\ call.op = "get_unvisited_neighbors") =>
        LET c == call.coordinate
            expected ==
                {n \in Looked(c, call.bottom_and_right_only) :
                    /\ n \in Coords(config.width, config.height)
                    /\ ~In(n, visited)}
        IN  /\ {ret[i] : i \in DOMAIN ret} = {<<c, n>> : n \in expected}
            /\ Len(ret) = Cardinality(expected)

\* the call has returned two neighbours, the north one before another, where
\* the list before the shuffle has the north one first only
C16_Witness ==
    /\ pc = "returned" /\ call.op = "get_unvisited_neighbors"
    /\ call.coordinate = <<1, 1>>
    /\ ~call.bottom_and_right_only
    /\ visited = <<<<1, 0>>, <<1, 1>>>>
    /\ Len(ret) = 3
    /\ ret[1][2] = <<2, 1>>

\* C17: the RenderGrid has 2*height+1 rows of 2*width+1 cells, and the
\* type of the cell at (row, col) is CORNER for row and col even,
\* HORIZONTAL for row even and col odd, VERTICAL for row odd and col even,
\* CENTER for both odd, the trailing row and column included
C17_TypeByParity ==
    (pc = "returned" /\ call.op = "create") =>
        /\ DOMAIN ret.grid = 0 .. 2 * maze.height
        /\ \A row \in DOMAIN ret.grid :
              /\ DOMAIN ret.grid[row] = 0 .. 2 * maze.width
              /\ \A col \in DOMAIN ret.grid[row] :
                    ret.grid[row][col].type =
                        IF row % 2 = 0
                        THEN IF col % 2 = 0 THEN CORNER ELSE HORIZONTAL
                        ELSE IF col % 2 = 0 THEN VERTICAL ELSE CENTER

\* a grid with a passage has been rendered, trailing row and column included
C17_Witness ==
    /\ pc = "returned" /\ call.op = "create"
    /\ ~AllWallsPresent
    /\ ret.grid[2 * maze.height][1].type = HORIZONTAL
    /\ ret.grid[1][2 * maze.width].type = VERTICAL

\* C18: for a grid with all walls present every cell of the outer border
\* of the RenderGrid is a CORNER with a glyph other than NONE or a wall
\* segment with open=False, and no HORIZONTAL or VERTICAL segment of the
\* grid has open=True
C18_ClosedGrid ==
    (pc = "returned" /\ call.op = "create" /\ AllWallsPresent) =>
        \A row \in DOMAIN ret.grid : \A col \in DOMAIN ret.grid[row] :
            LET rcell == ret.grid[row][col]
            IN  /\ (row \in {0, 2 * maze.height} \/ col \in {0, 2 * maze.width})
                      => \/ rcell.type = CORNER /\ rcell.corner_type # NONE
                         \/ rcell.type \in {HORIZONTAL, VERTICAL} /\ ~rcell.open
                /\ rcell.type \in {HORIZONTAL, VERTICAL} => ~rcell.open

\* a closed grid with an inner corner has been rendered
C18_Witness ==
    /\ pc = "returned" /\ call.op = "create"
    /\ AllWallsPresent
    /\ maze.width = 3 /\ maze.height = 3
    /\ ret.grid[2][2].corner_type = CROSS
    /\ ret.grid[2][1].type = HORIZONTAL

\* C19: copy_from raises an error whenever offset_x < 0, offset_y < 0,
\* offset_x + source.width > width or offset_y + source.height > height,
\* and writes to no destination cell other than (offset_x + x,
\* offset_y + y) for a source cell (x, y)
C19_RaisesOutOfBounds ==
    (pc = "returned" /\ call.op = "copy_from") =>
        /\ (\/ call.offset_x < 0
            \/ call.offset_y < 0
            \/ call.offset_x + call.source.width > maze.width
            \/ call.offset_y + call.source.height > maze.height)
              => ret.raised
        /\ \A c \in Cells :
              maze.grid[c] # call.before.grid[c] =>
                  \E s \in DOMAIN call.source.grid :
                      c = <<call.offset_x + s[1], call.offset_y + s[2]>>

\* c lies in [0, width) x [0, height)
Inside(c, width, height) ==
    c[1] \in 0 .. width - 1 /\ c[2] \in 0 .. height - 1

\* C20: constructing a Config succeeds iff width >= 2, height >= 2, entry
\* and exit lie in [0,width) x [0,height) and entry # exit; otherwise it
\* raises the error of the first failing check in the order width, height,
\* entry bounds, exit bounds, entry/exit distinct
C20_FirstFailingCheck ==
    (pc = "returned" /\ call.op = "Config") =>
        ret = IF config.width < 2 THEN Raised("DimensionsError", "WIDTH")
              ELSE IF config.height < 2
              THEN Raised("DimensionsError", "HEIGHT")
              ELSE IF ~Inside(config.entry, config.width, config.height)
              THEN Raised("PointBoundError", "ENTRY")
              ELSE IF ~Inside(config.exit, config.width, config.height)
              THEN Raised("PointBoundError", "EXIT")
              ELSE IF config.entry = config.exit
              THEN Raised("EntryExitError", "")
              ELSE Raised("", "")

\* width=-1 with an entry outside the grid has raised the WIDTH error
C20_Witness ==
    /\ pc = "returned" /\ call.op = "Config"
    /\ config.width = -1
    /\ config.entry = <<-1, 1>>
    /\ ret = Raised("DimensionsError", "WIDTH")

\* C21: get_invalid_size_squares((a, b)) returns exactly the 3x3 windows
\* inside the grid that contain both a and b: each of them is returned, and
\* no returned window misses a or b
C21_ExactlyTheWindowsWithBoth ==
    (pc = "returned" /\ call.op = "get_invalid_size_squares") =>
        /\ {ret[i][1] : i \in DOMAIN ret}
              = WindowsWith(call.adj_cells[1], call.adj_cells[2])
        /\ \A i \in DOMAIN ret :
              /\ In(call.adj_cells[1], ret[i])
              /\ In(call.adj_cells[2], ret[i])

\* the squares remove_wall_if_valid(a, b) examines on the grid m it has
\* removed the wall from: those up to the first one with a tally of zero
Examined(m, cfg, a, b) ==
    LET squares == get_invalid_size_squares(cfg, <<a, b>>)
    IN  {squares[k] : k \in {k \in DOMAIN squares :
            \A j \in 1 .. k - 1 : inner_walls(m, squares[j]) # 0}}

\* C22: for each square examined by remove_wall_if_valid the tally of
\* inner walls is zero iff no two adjacent cells of the square have a wall
\* between them
C22_TallyCoversEveryEdge ==
    (pc = "returned" /\ call.op = "remove_wall_if_valid") =>
        LET removed == set_wall_at(call.before, call.a, call.b, FALSE)
        IN  \A square \in Examined(removed, config, call.a, call.b) :
                (inner_walls(removed, square) = 0)
                <=> \A i \in 1 .. 9 : \A j \in 1 .. 9 :
                        Adjacent(square[i], square[j]) =>
                            ~has_wall_between(removed, square[i], square[j])

\* the exit is reached from the entry by wall-free moves
Reachable == config.exit \in ReachFrom({config.entry}, {config.entry})

\* C23: when the exit cannot be reached from the entry, solve_maze still
\* returns, and the path it stores is the exit coordinate alone, while the
\* entry cell is marked ENTRY and the exit cell EXIT
C23_UnreachableExit ==
    (pc = "call" /\ call.op = "solve_maze" /\ ~Reachable)
    ~> (/\ pc = "done"
        /\ path = <<config.exit>>
        /\ maze.path = <<config.exit>>
        /\ maze.grid[config.entry].type = ENTRY
        /\ maze.grid[config.exit].type = EXIT)

\* solve_maze has returned on a grid where the exit is walled off while
\* the entry has a passage
C23_Witness ==
    /\ pc = "done" /\ call.op = "solve_maze"
    /\ ~Reachable
    /\ Cardinality(ReachFrom({config.entry}, {config.entry})) >= 3

Roles == {PATH, ENTRY, EXIT}

\* C24 as stated: a step gives a cell a new role only after carving and
\* braiding, the role is PATH, ENTRY or EXIT, never BLOCKED, and the cell
\* had none of the three before
C24_RoleAssignedOnce ==
    [][\A c \in Cells :
          maze'.grid[c].type # maze.grid[c].type =>
              /\ pc = "walk"
              /\ maze'.grid[c].type \in Roles
              /\ maze.grid[c].type \notin Roles]_vars

\* C24: a step gives a cell a new role only after carving and braiding,
\* and never BLOCKED: the walk marks each cell of the path PATH once, the
\* entry and the exit included, and the end of solve_maze then marks the
\* entry ENTRY and the exit EXIT, so these two cells are assigned twice
C24_RolesAfterBraiding ==
    [][\A c \in Cells :
          maze'.grid[c].type # maze.grid[c].type =>
              /\ pc = "walk"
              /\ \/ /\ maze'.grid[c].type = PATH
                    /\ maze.grid[c].type = OPEN
                 \/ /\ maze'.grid[c].type = ENTRY
                    /\ c = config.entry
                    /\ maze.grid[c].type = PATH
                 \/ /\ maze'.grid[c].type = EXIT
                    /\ c = config.exit
                    /\ maze.grid[c].type = PATH]_vars

\* a braided maze with the pattern has been solved: the entry and the exit
\* are marked, with cells marked PATH between them
C24_Witness ==
    /\ pc = "done"
    /\ ~config.perfect
    /\ maze.grid[config.entry].type = ENTRY
    /\ maze.grid[config.exit].type = EXIT
    /\ \E c \in Cells : maze.grid[c].type = PATH
    /\ \E c \in Cells : maze.grid[c].type = BLOCKED

\* the cell at c lies on the stored solution path
HasRole(c) == maze.grid[c].type \in Roles

\* C25: in the RenderGrid of a maze returned by create_maze the segment
\* between a cell and the cell above it, or the cell to its left, has
\* path=True iff there is no wall between the two cells and both lie on
\* the stored path; so a segment next to the entry or the exit whose other
\* cell is off the path never has path=True
C25_PathSegments ==
    pc = "printed" =>
        \A c \in Cells :
            /\ c[2] > 0 =>
                  (ret.grid[2 * c[2]][2 * c[1] + 1].path
                   <=> /\ ~has_wall_between(maze, c, <<c[1], c[2] - 1>>)
                       /\ HasRole(c)
                       /\ HasRole(<<c[1], c[2] - 1>>))
            /\ c[1] > 0 =>
                  (ret.grid[2 * c[2] + 1][2 * c[1]].path
                   <=> /\ ~has_wall_between(maze, c, <<c[1] - 1, c[2]>>)
                       /\ HasRole(c)
                       /\ HasRole(<<c[1] - 1, c[2]>>))

\* the pairs <<c, d, segment>> of a BLOCKED cell c, the BLOCKED cell d above
\* it or to its left, and the render cell on their shared boundary
BlockedBoundaries ==
    {<<c, <<c[1], c[2] - 1>>, ret.grid[2 * c[2]][2 * c[1] + 1]>> :
        c \in {c \in Cells : /\ c[2] > 0
                             /\ maze.grid[c].type = BLOCKED
                             /\ maze.grid[<<c[1], c[2] - 1>>].type = BLOCKED}}
    \cup
    {<<c, <<c[1] - 1, c[2]>>, ret.grid[2 * c[2] + 1][2 * c[1]]>> :
        c \in {c \in Cells : /\ c[1] > 0
                             /\ maze.grid[c].type = BLOCKED
                             /\ maze.grid[<<c[1] - 1, c[2]>>].type = BLOCKED}}

\* C26 as stated: in the RenderGrid of a maze returned by create_maze the
\* segment on the shared boundary of two adjacent BLOCKED cells has
\* blocked=True
C26_BlockedBand ==
    pc = "printed" => \A b \in BlockedBoundaries : b[3].blocked

\* C26: in the RenderGrid of a maze returned by create_maze the segment on
\* the shared boundary of two adjacent BLOCKED cells is a closed wall with
\* blocked=False, and blocked=True is carried by the centers of the
\* BLOCKED cells and by no other render cell
C26_BlockedCentersOnly ==
    pc = "printed" =>
        /\ \A b \in BlockedBoundaries : ~b[3].blocked /\ ~b[3].open
        /\ \A row \in DOMAIN ret.grid : \A col \in DOMAIN ret.grid[row] :
              ret.grid[row][col].blocked
              <=> /\ row % 2 = 1 /\ col % 2 = 1
                  /\ maze.grid[<<col \div 2, row \div 2>>].type = BLOCKED

\* a maze with the pattern has been rendered
C26_Witness ==
    /\ pc = "printed"
    /\ Cardinality(BlockedBoundaries) >= 10
    /\ \E row \in DOMAIN ret.grid : \E col \in DOMAIN ret.grid[row] :
           ret.grid[row][col].blocked

\* C27: for every valid configuration create_maze terminates: once the
\* grid is drawn and the entry and the exit are accepted, the work list of
\* carve_maze becomes empty, the scan of make_imperfect ends, and the
\* frontier loop and the backward walk of solve_maze end, so that
\* create_maze returns
C27_Terminates == (pc = "carve") ~> (pc = "done")

\* create_maze has returned a braided maze of ten columns and rows
C27_Witness ==
    /\ pc = "done"
    /\ ~config.perfect
    /\ config.width = 10
    /\ Len(visited) = Cardinality(Cells) - Cardinality(NonBlocked)
    /\ coordinate = None

\* the arms of a junction glyph
GlyphArms(t) ==
    CASE t = HOR -> {"left", "right"}
      [] t = VER -> {"up", "down"}
      [] t = TL -> {"right", "down"}
      [] t = TR -> {"left", "down"}
      [] t = BL -> {"right", "up"}
      [] t = BR -> {"left", "up"}
      [] t = T_UP -> {"left", "right", "up"}
      [] t = T_DOWN -> {"left", "right", "down"}
      [] t = T_LEFT -> {"up", "down", "left"}
      [] t = T_RIGHT -> {"up", "down", "right"}
      [] t = CROSS -> {"left", "right", "up", "down"}
      [] OTHER -> {}

\* the walls that meet at the corner of a cell that has a cell above it and
\* a cell at its left
Arms(col, top, prev) ==
    (IF col.north THEN {"right"} ELSE {})
    \cup (IF prev.north THEN {"left"} ELSE {})
    \cup (IF col.west THEN {"down"} ELSE {})
    \cup (IF top.west THEN {"up"} ELSE {})

\* C28: for a cell with a cell above it and a cell at its left, set_corner
\* returns a corner whose glyph has exactly the arms of the walls present
\* among the north wall of the cell (right), the north wall of the left
\* cell (left), the west wall of the cell (down) and the west wall of the
\* cell above (up) when at least two of them are present, and the glyph
\* NONE exactly when fewer than two are present
C28_GlyphOfWalls ==
    (pc = "returned" /\ call.op = "set_corner"
        /\ call.top # None /\ call.prev # None) =>
       LET arms == Arms(call.col, call.top[1], call.prev[1])
       IN  /\ ret.type = CORNER
           /\ (Cardinality(arms) >= 2) =>
                  (ret.corner_type # NONE
                     /\ GlyphArms(ret.corner_type) = arms)
           /\ (Cardinality(arms) < 2) <=> (ret.corner_type = NONE)

\* set_corner has returned the cross for a corner where four walls meet
C28_Witness ==
    /\ pc = "returned"
    /\ call.op = "set_corner"
    /\ call.top # None
    /\ call.prev # None
    /\ Cardinality(Arms(call.col, call.top[1], call.prev[1])) = 4
    /\ ret.corner_type = CROSS

\* the walls of the cell at c that face out of the grid are present
OutwardWalls(c) ==
    /\ (c[2] = 0) => maze.grid[c].north
    /\ (c[2] = maze.height - 1) => maze.grid[c].south
    /\ (c[1] = 0) => maze.grid[c].west
    /\ (c[1] = maze.width - 1) => maze.grid[c].east

\* C29: in every state of create_maze every wall of the boundary of the
\* grid that faces outward is present: the north wall of each cell of row 0,
\* the south wall of each cell of the last row, the west wall of each cell
\* of column 0 and the east wall of each cell of the last column
C29_BoundaryClosed == \A c \in Cells : OutwardWalls(c)

\* create_maze has returned a braided grid of six columns whose inner walls
\* along the boundary are open somewhere
C29_Witness ==
    /\ pc = "done"
    /\ ~config.perfect
    /\ config.width = 6
    /\ \E c \in Cells :
           /\ c[2] = 0
           /\ c[1] < maze.width - 1
           /\ ~maze.grid[c].east
    /\ \E c \in Cells :
           /\ c[1] = maze.width - 1
           /\ c[2] < maze.height - 1
           /\ ~maze.grid[c].south

\* the cells on the outer rows and columns of the grid
Border ==
    { c \in Cells : \/ c[1] = 0 \/ c[1] = maze.width - 1
                    \/ c[2] = 0 \/ c[2] = maze.height - 1 }

\* the non-blocked cells that moves between neighbouring non-blocked cells,
\* walls disregarded, reach from the set front, seen being those reached
\* before
RECURSIVE Region(_, _)
Region(front, seen) ==
    IF front = {} THEN seen
    ELSE LET next == {d \in NonBlocked \ seen :
                        \E c \in front : d \in Around(c)}
         IN  Region(next, seen \cup next)

\* C30: on every grid on which the pattern is embedded (width >= 9 and
\* height >= 7) no BLOCKED cell lies on an outer row or column and the
\* non-blocked cells form one region connected by moves between
\* neighbouring cells, so that every non-blocked cell can be reached from
\* any non-blocked entry
C30_PatternLeavesOneRegion ==
    (pc = "returned" /\ call.op = "draw_42"
        /\ maze.width >= 9 /\ maze.height >= 7) =>
       /\ \A c \in Border : maze.grid[c].type # BLOCKED
       /\ \A c \in NonBlocked : Region({c}, {c}) = NonBlocked

\* draw_42 has embedded the pattern in the largest grid
C30_Witness ==
    /\ pc = "returned" /\ call.op = "draw_42"
    /\ maze.width = MaxSide /\ maze.height = MaxSide
    /\ Cardinality(NonBlocked) = MaxSide * MaxSide - 20
    /\ Cardinality(Region({<<0, 0>>}, {<<0, 0>>})) = MaxSide * MaxSide - 20
====
